---- MODULE Spec2Model ----
(***************************************************************************)
(* Model of src/logger.rs: the process-wide Logger behind                  *)
(* LOGGER: Mutex<Logger>, its setters, Logger::log and the macros          *)
(* init_logger!, tz!, error!, warn!, info!, debug!.                        *)
(*                                                                         *)
(* Instants are whole hours since 2024-03-09 17:00 UTC and wall clocks     *)
(* whole hours since 17:00 of 2024-03-09. Option<T> is a sequence of       *)
(* length 0 (None) or 1 (Some). A string built by format! is the sequence  *)
(* of its pieces. The template of the fallback message keeps its ASCII     *)
(* half only.                                                              *)
(***************************************************************************)
EXTENDS Integers, Sequences, FiniteSets, TLC

\* ---------------------------------------------------------------- bounds
NumThreads == 2
MaxClock == 1
MaxOut == 1

Threads == 1..NumThreads

\* ------------------------------------------------------------- LogLevel
Debug == 0
Info == 1
Warning == 2
Error == 3
LogLevel == {Debug, Info, Warning, Error}

\* Option<T>
None == <<>>
Some(x) == <<x>>

\* --------------------------------------------------------------- inputs
Languages == {"en", "fr"}
Keys == {"greeting", "OK"}
ValidTzNames == {"America/New_York"}
TzNames == ValidTzNames \cup {"Mars/Phobos"}
\* The zone of chrono::Local on the host.
LocalZone == "Asia/Shanghai"

\* ----------------------------------------------------- translation table
\* The locale files read by rust_i18n: <<locale, key>> |-> text.
Translations ==
    (<<"en", "error">> :> "ERROR") @@ (<<"en", "warning">> :> "WARN") @@
    (<<"en", "info">> :> "INFO") @@ (<<"en", "debug">> :> "DEBUG") @@
    (<<"fr", "error">> :> "ERREUR") @@ (<<"fr", "warning">> :> "AVERT") @@
    (<<"fr", "info">> :> "INFO") @@ (<<"fr", "debug">> :> "DEBOGAGE") @@
    (<<"en", "greeting">> :> "Hello") @@
    (<<"en", "OK">> :> "OK") @@ (<<"fr", "OK">> :> "D'accord")

HasTranslation(loc, key) == <<loc, key>> \in DOMAIN Translations

\* t!(key): the text of key in the active locale, the key itself when the
\* locale has none.
t(loc, key) == IF HasTranslation(loc, key) THEN Translations[<<loc, key>>] ELSE key

\* ------------------------------------------------------------ time zones
\* chrono_tz rules around the instants of the model: the UTC offset of a
\* zone at an instant. New York leaves EST (-5) for EDT (-4) at
\* 2024-03-10 07:00 UTC, instant 14, so its wall clock has no 02:00..02:59
\* that day.
Offsets(zone) ==
    CASE zone = "Asia/Shanghai" -> {8}
      [] zone = "America/New_York" -> {-5, -4}

OffsetAt(zone, instant) ==
    CASE zone = "Asia/Shanghai" -> 8
      [] zone = "America/New_York" -> IF instant < 14 THEN -5 ELSE -4

\* The wall clock of a zone at an instant (DateTime::naive_local).
NaiveLocal(zone, instant) == instant + OffsetAt(zone, instant)

\* Tz::from_str: Some(zone) for a name of the database, None otherwise.
TzFromStr(name) == IF name \in ValidTzNames THEN Some(name) ELSE None

\* tz.from_local_datetime(naive): the instants whose wall clock in tz is
\* naive. No element is LocalResult::None, one is Single, two Ambiguous.
FromLocalDatetime(tz, naive) ==
    {u \in {naive - o : o \in Offsets(tz)} : NaiveLocal(tz, u) = naive}

\* dt.format("%Y/%-m/%-d %H:%M:%S") of a wall clock in hours.
Format(naive) ==
    [Y |-> 2024, M |-> 3, D |-> 9 + ((naive + 17) \div 24),
     h |-> (naive + 17) % 24, m |-> 0, s |-> 0]

\* ---------------------------------------------------------------- state
VARIABLES
    logger,     \* the Logger inside LOGGER
    locale,     \* the active locale of rust_i18n
    owner,      \* Option<thread> holding the guard of LOGGER
    poisoned,   \* the poison flag of LOGGER
    pc,         \* where each thread is
    clock,      \* the current instant
    out,        \* the lines written to standard output
    entry,      \* history: Some(configuration at the start of the
                \* init_logger! in progress), None when there is none
    torn,       \* history: an init_logger! ended by a panic and left a
                \* configuration other than the one it started from
    configured  \* history: init_logger! or a setter has been called

vars == <<logger, locale, owner, poisoned, pc, clock, out, entry, torn, configured>>

Config == [logger |-> logger, locale |-> locale]

\* Mutant of New: the logger starts at Info.
NewStartsAtInfo == [timezone |-> None, language |-> Some("en"), min_level |-> Info]

\* Logger::new
New == [timezone |-> None, language |-> Some("en"), min_level |-> Debug]

Init ==
    /\ logger = New
    /\ locale = "en"
    /\ owner = None
    /\ poisoned = FALSE
    /\ pc = [th \in Threads |-> "idle"]
    /\ clock = 0
    /\ out = <<>>
    /\ entry = None
    /\ torn = FALSE
    /\ configured = FALSE

\* ------------------------------------------------------- Logger methods
\* Mutant of set_min_level: the logger is rebuilt around the new level.
set_min_level_rebuilds(l, level) ==
    [timezone |-> None, language |-> Some("en"), min_level |-> level]

set_min_level(l, level) == [l EXCEPT !.min_level = level]

\* Mutant of set_timezone: a timezone already set is cleared.
set_timezone_toggles(l, tz) ==
    [l EXCEPT !.timezone = IF l.timezone = None THEN Some(tz) ELSE None]

set_timezone(l, tz) == [l EXCEPT !.timezone = Some(tz)]

\* Mutant of set_language: the field is emptied when the language is the
\* one at construction.
set_language_default_unset(l, lang) ==
    [l EXCEPT !.language = IF lang = "en" THEN None ELSE Some(lang)]

\* set_language writes the field; its call of rust_i18n::set_locale is
\* set_locale below.
set_language(l, lang) == [l EXCEPT !.language = Some(lang)]

\* Mutant of set_locale: the locale is left as it was.
set_locale_skipped(cur, lang) == cur

set_locale(cur, lang) == lang

\* The block of init_logger! with a name that resolves: the configuration
\* it leaves when started on cfg.
init_logger(cfg, level, lang, name) ==
    LET l1 == set_min_level(cfg.logger, level)
        loc == set_locale(cfg.locale, lang)
        l2 == set_language(l1, lang)
        tz == TzFromStr(name)[1]
    IN  [logger |-> set_timezone(l2, tz), locale |-> loc]

\* Local::now().naive_local()
LocalNow(now) == NaiveLocal(LocalZone, now)

\* LocalResult::unwrap panics unless the result is Single.
UnwrapPanics(result) == Cardinality(result) # 1

FormatTimePanics(l, now) ==
    /\ l.timezone # None
    /\ UnwrapPanics(FromLocalDatetime(l.timezone[1], LocalNow(now)))

format_time(l, now) ==
    IF l.timezone # None
    THEN LET tz == l.timezone[1]
             dt == CHOOSE u \in FromLocalDatetime(tz, LocalNow(now)) : TRUE
         IN  Format(NaiveLocal(tz, dt))
    ELSE Format(LocalNow(now))

\* Mutant of LevelStyle: the Info arm repeats its tag colour for the
\* message, as the other arms do.
LevelStyleInfoOneColour(level, loc) ==
    CASE level = Error ->
           [level_color |-> <<255, 46, 99>>, message_color |-> <<255, 46, 99>>,
            level_str |-> t(loc, "error")]
      [] level = Warning ->
           [level_color |-> <<249, 237, 105>>, message_color |-> <<249, 237, 105>>,
            level_str |-> t(loc, "warning")]
      [] level = Info ->
           [level_color |-> <<48, 227, 202>>, message_color |-> <<48, 227, 202>>,
            level_str |-> t(loc, "info")]
      [] level = Debug ->
           [level_color |-> <<82, 97, 107>>, message_color |-> <<82, 97, 107>>,
            level_str |-> t(loc, "debug")]

\* The match on level in Logger::log.
LevelStyle(level, loc) ==
    CASE level = Error ->
           [level_color |-> <<255, 46, 99>>, message_color |-> <<255, 46, 99>>,
            level_str |-> t(loc, "error")]
      [] level = Warning ->
           [level_color |-> <<249, 237, 105>>, message_color |-> <<249, 237, 105>>,
            level_str |-> t(loc, "warning")]
      [] level = Info ->
           [level_color |-> <<48, 227, 202>>, message_color |-> <<255, 255, 255>>,
            level_str |-> t(loc, "info")]
      [] level = Debug ->
           [level_color |-> <<82, 97, 107>>, message_color |-> <<82, 97, 107>>,
            level_str |-> t(loc, "debug")]

\* Colorize::truecolor
truecolor(text, rgb) == [text |-> text, color |-> rgb]

\* Mutant of Filtered: the level set at construction is compared, not the
\* one an update wrote.
FilteredByInitialLevel(l, level) == level < Debug

\* level < self.min_level
Filtered(l, level) == level < l.min_level

\* raw_message == key
IsEcho(raw_message, key) == raw_message = key

\* Mutant of tz_str: the timezone name is never read.
tz_str_unknown(l) == "unknown"

tz_str(l) == IF l.timezone # None THEN l.timezone[1] ELSE "unknown"

FallbackMessage(l, key) ==
    <<"Translate Failed! | Lang ", l.language[1], " | Tz ", tz_str(l),
      " | Value ", key>>

final_message(l, loc, key) ==
    LET raw_message == t(loc, key)
    IN  IF IsEcho(raw_message, key) THEN FallbackMessage(l, key)
        ELSE <<raw_message>>

\* What println! writes for an accepted call.
Line(l, loc, now, level, key) ==
    LET style == LevelStyle(level, loc)
    IN  [time |-> format_time(l, now),
         sep |-> " ",
         level_display |-> truecolor(<<"[", style.level_str, "] ">>, style.level_color),
         message |-> truecolor(final_message(l, loc, key), style.message_color),
         end |-> "\n"]

\* ---------------------------------------------------------------- mutex
\* Mutant of LockFree: lock() does not wait for the guard.
LockNeverWaits == TRUE

\* lock() returns once no thread holds the guard.
LockFree == owner = None

\* Mutant of LockUnwrapPanics: the poison flag is ignored.
LockUnwrapIgnoresPoison == FALSE

\* lock().unwrap() panics when the mutex is poisoned.
LockUnwrapPanics == poisoned

\* --------------------------------------------------------------- actions
Tick ==
    /\ clock < MaxClock
    /\ clock' = clock + 1
    /\ UNCHANGED <<logger, locale, owner, poisoned, pc, out, entry, torn, configured>>

\* error!, warn!, info!, debug!: LOGGER.lock().unwrap()
LogLock(th) ==
    /\ pc[th] = "idle"
    /\ Len(out) < MaxOut
    /\ LockFree
    /\ IF LockUnwrapPanics
       THEN /\ pc' = [pc EXCEPT ![th] = "log_lock_panicked"]
            /\ UNCHANGED owner
       ELSE /\ owner' = Some(th)
            /\ pc' = [pc EXCEPT ![th] = "log_call"]
    /\ UNCHANGED <<logger, locale, poisoned, clock, out, entry, torn, configured>>

\* Logger::log(level, key) under the guard, and the drop of the guard after
\* it: the level is the one the macro fixes, the key its argument. A
\* panic inside unwinds through the guard: the mutex is released poisoned.
LogBody(th, level, key) ==
    /\ pc[th] = "log_call"
    /\ owner = Some(th)
    /\ owner' = None
    /\ IF Filtered(logger, level)
       THEN /\ pc' = [pc EXCEPT ![th] = "idle"]
            /\ UNCHANGED <<out, poisoned>>
       ELSE IF FormatTimePanics(logger, clock)
       THEN /\ pc' = [pc EXCEPT ![th] = "log_panicked"]
            /\ poisoned' = TRUE
            /\ UNCHANGED out
       ELSE /\ out' = Append(out, Line(logger, locale, clock, level, key))
            /\ pc' = [pc EXCEPT ![th] = "idle"]
            /\ UNCHANGED poisoned
    /\ UNCHANGED <<logger, locale, clock, entry, torn, configured>>

\* init_logger!: LOGGER.lock().unwrap()
InitLock(th) ==
    /\ pc[th] = "idle"
    /\ LockFree
    /\ IF LockUnwrapPanics
       THEN /\ pc' = [pc EXCEPT ![th] = "cfg_lock_panicked"]
            /\ UNCHANGED <<owner, entry>>
       ELSE /\ owner' = Some(th)
            /\ entry' = Some(Config)
            /\ pc' = [pc EXCEPT ![th] = "init_min_level"]
    /\ configured' = TRUE
    /\ UNCHANGED <<logger, locale, poisoned, clock, out, torn>>

\* init_logger!: logger.set_min_level($level)
InitSetMinLevel(th, level) ==
    /\ pc[th] = "init_min_level"
    /\ owner = Some(th)
    /\ logger' = set_min_level(logger, level)
    /\ pc' = [pc EXCEPT ![th] = "init_language"]
    /\ UNCHANGED <<locale, owner, poisoned, clock, out, entry, torn, configured>>

\* init_logger!: logger.set_language($lang)
InitSetLanguage(th, lang) ==
    /\ pc[th] = "init_language"
    /\ owner = Some(th)
    /\ locale' = set_locale(locale, lang)
    /\ logger' = set_language(logger, lang)
    /\ pc' = [pc EXCEPT ![th] = "init_timezone"]
    /\ UNCHANGED <<owner, poisoned, clock, out, entry, torn, configured>>

\* init_logger!: tz!($tz_str), logger.set_timezone(tz) and the end of the
\* block. tz! panics on a name Tz::from_str rejects; the guard is dropped
\* by the unwinding and the mutex is poisoned.
InitSetTimezone(th, name) ==
    /\ pc[th] = "init_timezone"
    /\ owner = Some(th)
    /\ owner' = None
    /\ IF TzFromStr(name) = None
       THEN /\ pc' = [pc EXCEPT ![th] = "init_panicked"]
            /\ poisoned' = TRUE
            /\ torn' = (torn \/ Config # entry[1])
            /\ UNCHANGED logger
       ELSE /\ logger' = set_timezone(logger, TzFromStr(name)[1])
            /\ pc' = [pc EXCEPT ![th] = "idle"]
            /\ UNCHANGED <<poisoned, torn>>
    /\ entry' = None
    /\ UNCHANGED <<locale, clock, out, configured>>

SetterNames == {"set_min_level", "set_language", "set_timezone"}

\* A call of one setter on the logger: LOGGER.lock().unwrap()
SetterLock(th, setter) ==
    /\ pc[th] = "idle"
    /\ LockFree
    /\ IF LockUnwrapPanics
       THEN /\ pc' = [pc EXCEPT ![th] = "cfg_lock_panicked"]
            /\ UNCHANGED owner
       ELSE /\ owner' = Some(th)
            /\ pc' = [pc EXCEPT ![th] = setter]
    /\ configured' = TRUE
    /\ UNCHANGED <<logger, locale, poisoned, clock, out, entry, torn>>

CallSetMinLevel(th, level) ==
    /\ pc[th] = "set_min_level"
    /\ owner = Some(th)
    /\ logger' = set_min_level(logger, level)
    /\ owner' = None
    /\ pc' = [pc EXCEPT ![th] = "idle"]
    /\ UNCHANGED <<locale, poisoned, clock, out, entry, torn, configured>>

CallSetLanguage(th, lang) ==
    /\ pc[th] = "set_language"
    /\ owner = Some(th)
    /\ locale' = set_locale(locale, lang)
    /\ logger' = set_language(logger, lang)
    /\ owner' = None
    /\ pc' = [pc EXCEPT ![th] = "idle"]
    /\ UNCHANGED <<poisoned, clock, out, entry, torn, configured>>

CallSetTimezone(th, tz) ==
    /\ pc[th] = "set_timezone"
    /\ owner = Some(th)
    /\ logger' = set_timezone(logger, tz)
    /\ owner' = None
    /\ pc' = [pc EXCEPT ![th] = "idle"]
    /\ UNCHANGED <<locale, poisoned, clock, out, entry, torn, configured>>

Next ==
    \/ Tick
    \/ \E th \in Threads : LogLock(th)
    \/ \E th \in Threads, level \in LogLevel, key \in Keys : LogBody(th, level, key)
    \/ \E th \in Threads : InitLock(th)
    \/ \E th \in Threads, level \in LogLevel : InitSetMinLevel(th, level)
    \/ \E th \in Threads, lang \in Languages : InitSetLanguage(th, lang)
    \/ \E th \in Threads, name \in TzNames : InitSetTimezone(th, name)
    \/ \E th \in Threads, setter \in SetterNames : SetterLock(th, setter)
    \/ \E th \in Threads, level \in LogLevel : CallSetMinLevel(th, level)
    \/ \E th \in Threads, lang \in Languages : CallSetLanguage(th, lang)
    \/ \E th \in Threads, tz \in ValidTzNames : CallSetTimezone(th, tz)

Spec == Init /\ [][Next]_vars

\* ---------------------------------------------------------------- claims
\* The pc values at which a thread holds the guard of LOGGER.
Holding ==
    {"log_call", "init_min_level", "init_language", "init_timezone",
     "set_min_level", "set_language", "set_timezone"}

LastLine(o) == o[Len(o)]

\* C1: for every minimum level M and level L, log(L, key) writes no line
\* and changes nothing when L < M, and writes exactly one line when L >= M.
C1_FilterContract ==
    [][\A th \in Threads, level \in LogLevel, key \in Keys :
         LogBody(th, level, key) =>
           IF level < logger.min_level
           THEN out' = out /\ logger' = logger /\ locale' = locale
           ELSE Len(out') = Len(out) + 1]_vars

\* C2: init_logger! with a timezone name that does not resolve fails and
\* leaves min_level, language, timezone and the active locale as they were
\* before the call.
C2_FailedConfigureKeepsConfig ==
    [][\A th \in Threads :
         (pc[th] = "init_timezone" /\ pc'[th] = "init_panicked") =>
           [logger |-> logger', locale |-> locale'] = entry[1]]_vars

\* C3: a log call always returns normally to its caller: no thread ever
\* ends a log call by a panic.
C3_LogAlwaysReturns ==
    \A th \in Threads : pc[th] \notin {"log_panicked", "log_lock_panicked"}

\* C4: init_logger! replaces the three fields atomically: no thread runs
\* Logger::log while an init_logger! is between its setters, nor after one
\* stopped between them.
C4_ConfigureAtomic ==
    \A th \in Threads : pc[th] = "log_call" => (entry = None /\ ~torn)

\* C4 witness: a thread is inside a log call on a logger whose three fields
\* all differ from the initial ones.
C4_Witness ==
    \E th \in Threads :
        /\ pc[th] = "log_call"
        /\ logger.min_level # Debug
        /\ logger.language = Some("fr")
        /\ logger.timezone # None

\* C5: every accepted log call that has exclusive access appends exactly
\* one complete line of its own after the lines already written, so N
\* calls leave N whole lines in the order of acquisition.
C5_OneLinePerAcceptedCall ==
    [][\A th \in Threads, level \in LogLevel, key \in Keys :
         (LogBody(th, level, key) /\ level >= logger.min_level) =>
           /\ Len(out') = Len(out) + 1
           /\ SubSeq(out', 1, Len(out)) = out
           /\ LastLine(out').end = "\n"]_vars

\* C6: mutual exclusion: at most one thread is inside a log call, a setter
\* or init_logger!, and the guard is held exactly while that call runs.
C6_MutualExclusion ==
    /\ Cardinality({th \in Threads : pc[th] \in Holding}) <= 1
    /\ \A th \in Threads : (owner = Some(th)) <=> (pc[th] \in Holding)

\* C6 witness: one thread holds the guard inside a log call, after the
\* configuration was changed under the guard, while another is outside.
C6_Witness ==
    \E th \in Threads, other \in Threads :
        /\ th # other
        /\ owner = Some(th)
        /\ pc[th] = "log_call"
        /\ pc[other] = "idle"
        /\ logger # New

\* C7: the timestamp of an emitted line is the wall clock of the current
\* instant in the configured timezone when one is set, and the host's wall
\* clock when none is.
C7_TimestampInConfiguredZone ==
    [][\A th \in Threads, level \in LogLevel, key \in Keys :
         (LogBody(th, level, key) /\ Len(out') = Len(out) + 1) =>
           LastLine(out').time =
             Format(IF logger.timezone # None
                    THEN NaiveLocal(logger.timezone[1], clock)
                    ELSE NaiveLocal(LocalZone, clock))]_vars

\* C8: when the lookup of a key returns the key unchanged, the emitted
\* message is the Translate Failed template with the configured language,
\* the configured timezone name or "unknown", and the key.
C8_FallbackTemplate ==
    [][\A th \in Threads, level \in LogLevel, key \in Keys :
         (LogBody(th, level, key) /\ Len(out') = Len(out) + 1
            /\ t(locale, key) = key) =>
           LastLine(out').message.text =
             <<"Translate Failed! | Lang ", logger.language[1], " | Tz ",
               IF logger.timezone = None THEN "unknown" ELSE logger.timezone[1],
               " | Value ", key>>]_vars

\* C8 witness: a fallback line was written for a key without French text,
\* under language fr and a configured timezone.
C8_Witness ==
    \E i \in 1..Len(out) :
        out[i].message.text =
          <<"Translate Failed! | Lang ", "fr", " | Tz ", "America/New_York",
            " | Value ", "greeting">>

\* C9: an accepted log call emits the Translate Failed message only for a
\* key without a translation in the active language; when a translation
\* exists the message is that translation.
C9_FallbackOnlyWhenMissing ==
    [][\A th \in Threads, level \in LogLevel, key \in Keys :
         (LogBody(th, level, key) /\ Len(out') = Len(out) + 1
            ) =>
           /\ HasTranslation(locale, key) =>
                LastLine(out').message.text = <<Translations[<<locale, key>>]>>
           /\ LastLine(out').message.text[1] = "Translate Failed! | Lang " =>
                ~HasTranslation(locale, key)]_vars

\* C10: in every reachable state the locale used for translation is the
\* language field of the Logger.
C10_LocaleIsLanguage == logger.language = Some(locale)

\* C10 witness: a log call runs after the language was switched to fr.
C10_Witness ==
    \E th \in Threads : pc[th] = "log_call" /\ locale = "fr"

\* The translation key of a level's tag.
TagKey(level) ==
    CASE level = Error -> "error" [] level = Warning -> "warning"
      [] level = Info -> "info" [] level = Debug -> "debug"

\* C11: a change made by init_logger! or a setter is seen by every log call
\* that acquires the logger after it and never alters a line already
\* written: a log call runs only on a configuration no update has left
\* half written, is filtered by the min_level and rendered with the
\* language and timezone that the logger then holds, and every step keeps
\* the lines written before it.
C11_UpdatesSeenNotRetroactive ==
    [][/\ Len(out') >= Len(out)
       /\ SubSeq(out', 1, Len(out)) = out
       /\ \A th \in Threads, level \in LogLevel, key \in Keys :
            LogBody(th, level, key) =>
              /\ entry = None /\ ~torn
              /\ level < logger.min_level => out' = out
              /\ Len(out') = Len(out) + 1 =>
                   /\ level >= logger.min_level
                   /\ LastLine(out').level_display.text[2] =
                        t(logger.language[1], TagKey(level))
                   /\ LastLine(out').message.text \in
                        {<<t(logger.language[1], key)>>,
                         <<"Translate Failed! | Lang ", logger.language[1],
                           " | Tz ",
                           IF logger.timezone = None THEN "unknown"
                           ELSE logger.timezone[1],
                           " | Value ", key>>}]_vars

\* C11 witness: a line was written in French at level Error while the
\* logger filters below Error: the log call came after both updates.
C11_Witness ==
    /\ logger.min_level = Error
    /\ \E i \in 1..Len(out) : out[i].level_display.text[2] = "ERREUR"

\* C12: init_logger! is idempotent: whenever an init_logger! completes, a
\* second one with the same valid arguments would leave the configuration
\* the first one left. A line is a function of that configuration, the
\* clock and the arguments of the log call (Line), so a log call renders
\* the same line at the same instant after one call and after two.
C12_ConfigureIdempotent ==
    [][\A th \in Threads :
         (pc[th] = "init_timezone" /\ pc'[th] = "idle") =>
           /\ \E level \in LogLevel, lang \in Languages, name \in ValidTzNames :
                Config' = init_logger(entry[1], level, lang, name)
           /\ \A level \in LogLevel, lang \in Languages, name \in ValidTzNames :
                Config' = init_logger(entry[1], level, lang, name) =>
                  init_logger(Config', level, lang, name) = Config']_vars

\* C12 witness: an init_logger! that started on a configuration with a
\* timezone set has written the min_level and language that were already
\* there and is about to resolve its timezone name.
C12_Witness ==
    \E th \in Threads :
        /\ pc[th] = "init_timezone"
        /\ entry # None
        /\ entry[1].logger.timezone = Some("America/New_York")
        /\ entry[1].logger.language = Some("fr")
        /\ Config = entry[1]

\* C13: the setters are independent: a call of set_min_level changes only
\* min_level, a call of set_language only language and the active locale,
\* a call of set_timezone only timezone.
C13_SettersIndependent ==
    [][\A th \in Threads :
         /\ (pc[th] = "set_min_level" /\ pc'[th] # pc[th]) =>
              /\ logger'.language = logger.language
              /\ logger'.timezone = logger.timezone
              /\ locale' = locale
         /\ (pc[th] = "set_language" /\ pc'[th] # pc[th]) =>
              /\ logger'.min_level = logger.min_level
              /\ logger'.timezone = logger.timezone
         /\ (pc[th] = "set_timezone" /\ pc'[th] # pc[th]) =>
              /\ logger'.min_level = logger.min_level
              /\ logger'.language = logger.language
              /\ locale' = locale]_vars

\* C13 witness: setters alone have set min_level and language and left the
\* timezone unset (init_logger! sets a timezone or poisons the mutex).
C13_Witness ==
    /\ ~poisoned
    /\ owner = None
    /\ logger.min_level = Error
    /\ logger.language = Some("fr")
    /\ logger.timezone = None

\* The colour table of the specification: tag and message colour of a level.
TagColour(level) ==
    CASE level = Error -> <<255, 46, 99>> [] level = Warning -> <<249, 237, 105>>
      [] level = Info -> <<48, 227, 202>> [] level = Debug -> <<82, 97, 107>>

MessageColour(level) ==
    IF level = Info THEN <<255, 255, 255>> ELSE TagColour(level)

\* C14: every emitted line is the timestamp, one space, the bracketed level
\* tag in the level's tag colour, one space, the message in the level's
\* message colour, and the line end; the two colours are those of the
\* table, equal for Error, Warning and Debug and different for Info.
C14_LineLayout ==
    [][\A th \in Threads, level \in LogLevel, key \in Keys :
         (LogBody(th, level, key) /\ Len(out') = Len(out) + 1) =>
           LET line == LastLine(out')
           IN  /\ DOMAIN line = {"time", "sep", "level_display", "message", "end"}
               /\ DOMAIN line.time = {"Y", "M", "D", "h", "m", "s"}
               /\ line.sep = " "
               /\ line.level_display.text = <<"[", t(locale, TagKey(level)), "] ">>
               /\ line.level_display.color = TagColour(level)
               /\ line.message.color = MessageColour(level)
               /\ (line.message.color = line.level_display.color) <=> (level # Info)
               /\ line.end = "\n"]_vars

\* C14 witness: an Info line was written, its tag in the accent colour and
\* its message in white.
C14_Witness ==
    \E i \in 1..Len(out) :
        /\ out[i].level_display.text[2] = "INFO"
        /\ out[i].level_display.color = <<48, 227, 202>>
        /\ out[i].message.color = <<255, 255, 255>>

\* C15: before any init_logger! or setter call the configuration is
\* min_level Debug, language en, timezone unset; a log call at any level
\* then writes a line, and a fallback message written then names language
\* en and timezone unknown.
C15_Defaults ==
    [][~configured =>
         /\ logger.min_level = Debug
         /\ logger.language = Some("en")
         /\ logger.timezone = None
         /\ \A th \in Threads, level \in LogLevel, key \in Keys :
              LogBody(th, level, key) =>
                /\ Len(out') = Len(out) + 1
                /\ LastLine(out').level_display.color = TagColour(level)
                /\ LastLine(out').message.text[1] = "Translate Failed! | Lang " =>
                     /\ LastLine(out').message.text[2] = "en"
                     /\ LastLine(out').message.text[4] = "unknown"]_vars

\* C15 witness: a fallback message naming en and unknown was written before
\* any init_logger! or setter call.
C15_Witness ==
    /\ ~configured
    /\ \E i \in 1..Len(out) :
         out[i].message.text =
           <<"Translate Failed! | Lang ", "en", " | Tz ", "unknown", " | Value ", "OK">>

\* C16: exclusive access is always given back usable: whenever no thread
\* holds the guard the mutex is not poisoned, so no later log call fails to
\* acquire it.
C16_LockGivenBackUsable ==
    /\ owner = None => ~poisoned
    /\ \A th \in Threads : pc[th] # "log_lock_panicked"

\* C17: the language field is set in every reachable state.
C17_LanguageAlwaysSet ==
    /\ logger.language # None
    /\ logger.language[1] \in Languages

\* C17 witness: the fallback branch read a language written by set_language:
\* a fallback message names fr and no timezone.
C17_Witness ==
    \E i \in 1..Len(out) :
        out[i].message.text =
          <<"Translate Failed! | Lang ", "fr", " | Tz ", "unknown",
            " | Value ", "greeting">>

====
